---- MODULE Spec2Model ----
(***************************************************************************)
(* A model of ann_scraper.py: the entry index (sqlite table `entry`), the  *)
(* per-type xml documents (anime.xml, manga.xml), the cached master list   *)
(* (index.xml) and the three things main() can do with them: regenerate    *)
(* the index, report progress, download a number of entries in batches.    *)
(*                                                                         *)
(* Durable state: index_xml, db_file, xml.  Everything else belongs to the *)
(* running process and is lost when it ends.                               *)
(***************************************************************************)
EXTENDS Integers, Sequences, FiniteSets, TLC

(* ------------------------------ bounds --------------------------------- *)

\* The catalog holds the ids 1..MaxId.
MaxId == 3
\* The values a generated-on attribute can take are 1..MaxDate.
MaxDate == 1
\* num_batch, the ids one request may carry (50 in the program).
NumBatch == 2
\* The largest --num-entries main is called with.
MaxCount == 3
\* A download is only answered while the document stays within this length.
MaxDocLen == 3
\* The longest document remove_duplicates is applied to on its own.
MaxDedupLen == 5
\* How often remove_duplicates is applied to it in a row.
MaxDedupCalls == 2

(* ------------------------------ values --------------------------------- *)

\* Python's None / SQL NULL in the generated_on column.
None == 0

Ids == 1..MaxId
Dates == 1..MaxDate

\* The raw type strings of the master list; "NULL" stands for an item with
\* no <type> child, which index_to_tuple stores as None.
KindCycle == <<"anime", "ONA", "anime", "manga", "anthology", "NULL">>

EntryTypes == {"anime", "manga"}

\* The master list the catalog serves: item i has id i and the type found
\* `shift` places further in KindCycle.
Catalog(shift) == [i \in 1..MaxId |-> [id |-> i, type |-> KindCycle[((i - 1 + shift) % Len(KindCycle)) + 1]]]

\* The master lists DATABASE_LIST_API may answer with: the two halves of the
\* cycle of kinds, which between them hold every kind, more ids of one type
\* than a batch takes and a type with no id at all, and one list that names
\* its first id twice.
MasterLists == {Catalog(0), Catalog(3), Append(Catalog(0), Catalog(0)[1])}

(* --------------------------- pure functions ---------------------------- *)

RemoveAt(s, i) == [j \in 1..(Len(s) - 1) |-> IF j < i THEN s[j] ELSE s[j + 1]]

NodeIds(root) == {root[i].id : i \in 1..Len(root)}

\* index_to_tuple: an <item> of index.xml as a row; generated_on is None.
index_to_tuple(node) == [id |-> node.id, type |-> node.type, generated_on |-> None]

\* entry_to_tuple: (generated-on, id) of a downloaded node; attrib.get gives
\* None when the attribute is missing.
entry_to_tuple(node) == <<node.generated_on, node.id>>

\* update_entries with the statement never executed.
UpdateNothing(rows, values) == rows

\* `update entry set generated_on=? where entry.id=?` for each value in
\* turn: a later value for the same id overwrites an earlier one, an id
\* that is not in the table changes nothing.
RECURSIVE update_entries(_, _)
update_entries(rows, values) ==
    IF values = <<>> THEN rows
    ELSE LET v == Head(values)
             next == IF v[2] \in DOMAIN rows
                     THEN [rows EXCEPT ![v[2]].generated_on = v[1]]
                     ELSE rows
         IN update_entries(next, Tail(values))

\* The where-clause comparing the raw type with entry_type.
TypeMatchesRaw(type, entry_type) == type = entry_type

\* The where-clause shared by download_entries and progress:
\*   entry.type [not] in ('manga', 'anthology')
\* with "not" for entry_type anime.  A NULL type satisfies neither form.
TypeMatches(type, entry_type) ==
    /\ type # "NULL"
    /\ IF entry_type = "anime"
       THEN type \notin {"manga", "anthology"}
       ELSE type \in {"manga", "anthology"}

\* select id from entry where <type clause>
SelectTotal(rows, entry_type) == {i \in DOMAIN rows : TypeMatches(rows[i].type, entry_type)}

\* The second select finding no row (seen_id empty).
SelectSeenNothing(rows, entry_type) == {}

\* ... and entry.generated_on is not null
SelectSeen(rows, entry_type) == {i \in SelectTotal(rows, entry_type) : rows[i].generated_on # None}

\* progress(conn, entry_type): (seen, total); it never raises.
progress(rows, entry_type) == <<Cardinality(SelectSeen(rows, entry_type)), Cardinality(SelectTotal(rows, entry_type))>>

\* The loop of remove_duplicates.  `for node in root` walks the live child
\* list by position; root.remove(node) takes the node out of that list, so
\* the node that slides into position i is never visited.
RECURSIVE RemoveLoop(_, _, _)
RemoveLoop(root, i, seen_ids) ==
    IF i > Len(root) THEN root
    ELSE LET entry_id == root[i].id
         IN IF entry_id \in seen_ids
            THEN RemoveLoop(RemoveAt(root, i), i + 1, seen_ids \cup {entry_id})
            ELSE RemoveLoop(root, i + 1, seen_ids \cup {entry_id})

remove_duplicates(root) == RemoveLoop(root, 1, {})


\* conn.commit(): what the connection has done becomes the file's content.
commit(db, rows) == [db EXCEPT !.rows = rows]

\* The batch loop without its commit.
BatchCommitNothing(db, rows) == db

\* conn.commit() at the end of a batch (line 167).
BatchCommit(db, rows) == commit(db, rows)

\* The batch loop without `not_seen -= to_download`.
RemainingAll(unseen, batch) == unseen

\* not_seen -= to_download
Remaining(unseen, batch) == unseen \ batch

\* The local document written without the new nodes.
ExtendNothing(root, children) == root

\* local.getroot().extend(children)
Extend(root, children) == root \o children

\* The ways a request for to_download can be answered: one node for each id
\* of some subset of the ids asked for (an id the catalog does not serve is
\* answered by a <warning>, which findall(entry_type) drops), in any order,
\* each with its generated-on attribute or without one.
RECURSIVE Responses(_)
Responses(ids) ==
    {<<>>} \cup UNION {{<<[id |-> i, generated_on |-> g]>> \o r : r \in Responses(ids \ {i})} : <<i, g>> \in ids \X ({None} \cup Dates)}

\* A sample drawn with replacement and made a set: up to that size.
SamplesWithReplacement(not_seen, num_batch) == {s \in SUBSET not_seen : Cardinality(s) >= 1 /\ Cardinality(s) <= num_batch}

\* random.sample(not_seen, num_batch): the subsets of that size.
Samples(not_seen, num_batch) == {s \in SUBSET not_seen : Cardinality(s) = num_batch}

(* ------------------------------- state --------------------------------- *)

VARIABLES
    index_xml,      \* the cached master list: [exists, items]; exists with
                    \* valid = FALSE is the empty file a failed download leaves
    db_file,        \* ann.db as committed: [exists, rows]
    xml,            \* anime.xml / manga.xml: [exists, root]
    pc,             \* where the running invocation of main is; "idle": none
    args,           \* the parsed command line
    conn,           \* the rows as the open connection sees them (uncommitted
                    \* changes included)
    total_id,       \* download_entries' locals ...
    not_seen,
    num_entries,
    num_batch,
    local,
    to_download,
    children,
    outcome,        \* how the last invocation ended
    report,         \* what the last status / batch log line was given
    requested,      \* the ids this run of download_entries has asked for
    seen_at_start,  \* the ids whose committed generated_on was set when this
                    \* run of download_entries began
    batches,        \* the batches this run has committed
    last_commit,    \* db_file and xml as of this run's last commit (or start)
    interrupted,    \* the invocation before this one was killed after it had
                    \* committed a batch
    modes,          \* which of regenerate / status / download this invocation ran
    unseen_at_start, \* the ids of the type whose committed generated_on was
                    \* null when this run of download_entries began
    at_start,       \* ann.db and the documents as this invocation found them
    last_regen,     \* the rows the last regenerate_database committed, while
                    \* nothing has been downloaded and no regeneration killed since
    dd_in,          \* a document handed to remove_duplicates on its own
    dd_out,         \* ... what the last call left of it
    dd_calls        \* ... and how often it has been called on it

durable == <<index_xml, db_file, xml>>
process == <<pc, args, conn, outcome, report, modes>>
locals == <<total_id, not_seen, num_entries, num_batch, local, to_download, children>>
history == <<requested, seen_at_start, unseen_at_start, batches, last_commit, interrupted, last_regen, at_start>>
dedup == <<dd_in, dd_out, dd_calls>>
vars == <<index_xml, db_file, xml, pc, args, conn, total_id, not_seen, num_entries, num_batch, local, to_download, children, outcome, report, requested, seen_at_start, batches, last_commit, interrupted, modes, last_regen, at_start, unseen_at_start, dd_in, dd_out, dd_calls>>

NoRows == [i \in {} |-> None]
NoFile == [exists |-> FALSE, root |-> <<>>]
NoArgs == [regenerate_db |-> FALSE, status |-> FALSE, num_entries |-> 0, entry_type |-> "anime"]
\* The command lines main is started with; -n is varied where it is read
\* (neither -r nor -s given), -t where it is read (not for -r alone).
CommandLines ==
    {a \in [regenerate_db : BOOLEAN, status : BOOLEAN, num_entries : -1..MaxCount, entry_type : EntryTypes] :
        /\ (a.regenerate_db \/ a.status) => a.num_entries = MaxCount
        /\ (a.regenerate_db /\ ~a.status) => a.entry_type = "anime"}
NoReport == <<>>
NoCommit == <<>>
NoRegen == [valid |-> FALSE, rows |-> NoRows]
DownloadPcs == {"while", "urlopen", "write", "update"}
RegenPcs == {"regenerate_database", "regenerate_index", "regenerate_anime", "regenerate_manga", "regenerate_commit"}

\* A process that is gone has no state of its own.
LocalsCleared ==
    /\ total_id' = {}
    /\ not_seen' = {}
    /\ num_entries' = 0
    /\ num_batch' = 0
    /\ local' = <<>>
    /\ to_download' = {}
    /\ children' = <<>>

\* main returns, or an exception leaves it: the process is about to end.
Exit(how) ==
    /\ pc' = "exit"
    /\ outcome' = how
    /\ UNCHANGED args

\* An empty data directory and no process.
InitMain ==
    /\ index_xml = [exists |-> FALSE, valid |-> FALSE, items |-> <<>>]
    /\ db_file = [exists |-> FALSE, rows |-> NoRows]
    /\ xml = [t \in EntryTypes |-> NoFile]
    /\ pc = "idle"
    /\ args = NoArgs
    /\ conn = NoRows
    /\ total_id = {}
    /\ not_seen = {}
    /\ num_entries = 0
    /\ num_batch = 0
    /\ local = <<>>
    /\ to_download = {}
    /\ children = <<>>
    /\ outcome = "none"
    /\ report = NoReport
    /\ requested = {}
    /\ seen_at_start = {}
    /\ batches = 0
    /\ last_commit = NoCommit
    /\ interrupted = FALSE
    /\ last_regen = NoRegen
    /\ at_start = NoCommit
    /\ unseen_at_start = {}
    /\ modes = {}

Init ==
    /\ InitMain
    /\ dd_in = <<>>
    /\ dd_out = <<>>
    /\ dd_calls = 0

\* A document with the given ids in this order; each node carries its
\* position as its generated-on, which tells nodes with one id apart.
AsDocument(ids) == [i \in 1..Len(ids) |-> [id |-> ids[i], generated_on |-> i]]

\* The documents remove_duplicates is tried on by itself.
Documents == {AsDocument(ids) : ids \in UNION {[1..n -> Ids] : n \in 0..MaxDedupLen}}

InitDedup ==
    /\ InitMain
    /\ dd_in \in Documents
    /\ dd_out = <<>>
    /\ dd_calls = 0


(* ------------------------------- main ---------------------------------- *)

\* main with the download guarded by `not args.regenerate_db` alone.
AfterStoreForgetsStatus(a) == IF a.regenerate_db THEN "return" ELSE "download_entries"

\* What main does once it holds a connection (lines 268-276): the status
\* report if --status, then the download unless --regenerate-db or --status.
AfterStore(a) ==
    IF a.status THEN "status"
    ELSE IF ~(a.regenerate_db \/ a.status) THEN "download_entries"
    ELSE "return"

\* main is started with a command line.  With --regenerate-db, or when
\* ann.db does not exist, it enters regenerate_database, which first removes
\* the old database file; otherwise it connects to the existing one.
Main ==
    /\ pc = "idle"
    /\ \E a \in CommandLines :
        /\ args' = a
        /\ IF a.regenerate_db \/ ~db_file.exists
           THEN /\ db_file' = [exists |-> FALSE, rows |-> NoRows]
                /\ conn' = NoRows
                /\ pc' = "regenerate_database"
                /\ modes' = {"regenerate"}
           ELSE /\ db_file' = db_file
                /\ conn' = db_file.rows
                /\ pc' = AfterStore(a)
                /\ modes' = {}
    /\ outcome' = "running"
    /\ at_start' = <<db_file, xml>>
    /\ UNCHANGED <<index_xml, xml, report, locals, dedup>>
    /\ UNCHANGED <<requested, seen_at_start, unseen_at_start, batches, last_commit, interrupted, last_regen>>

\* main has nothing left to do.
Return ==
    /\ pc = "return"
    /\ UNCHANGED durable
    /\ Exit("ok")
    /\ UNCHANGED <<conn, locals, report, modes, history, dedup>>

\* The process is gone: an open transaction is rolled back, and only the
\* files remain.
Gone(killed) ==
    /\ pc' = "idle"
    /\ outcome' = "none"
    /\ conn' = NoRows
    /\ args' = NoArgs
    /\ LocalsCleared
    /\ report' = NoReport
    /\ modes' = {}
    /\ requested' = {}
    /\ seen_at_start' = {}
    /\ unseen_at_start' = {}
    /\ batches' = 0
    /\ last_commit' = NoCommit
    /\ at_start' = NoCommit
    /\ interrupted' = (killed /\ batches > 0)
    /\ last_regen' = IF killed /\ pc \in RegenPcs THEN NoRegen ELSE last_regen
    /\ UNCHANGED <<durable, dedup>>

\* The process is killed (or the machine stops) wherever it is.
Kill ==
    /\ pc \notin {"idle", "exit"}
    /\ Gone(TRUE)

\* The process ends after main has returned or raised.
ProcessEnd ==
    /\ pc = "exit"
    /\ Gone(FALSE)

(* ------------------------ regenerate_database -------------------------- *)

\* sqlite3.connect and create_table: the file exists again, with an empty
\* table (the create statement is not part of a transaction).
RegenCreate ==
    /\ pc = "regenerate_database"
    /\ db_file' = [exists |-> TRUE, rows |-> NoRows]
    /\ conn' = NoRows
    /\ pc' = "regenerate_index"
    /\ UNCHANGED <<index_xml, xml, args, outcome, report, modes, locals, history, dedup>>

\* insert_entries: one row per item; a second row for an id in the table is
\* an IntegrityError.
HasDuplicateIds(items) == \E i, j \in 1..Len(items) : i < j /\ items[i].id = items[j].id

insert_entries(items) == [i \in NodeIds(items) |-> LET n == CHOOSE k \in 1..Len(items) : items[k].id = i IN [type |-> index_to_tuple(items[n]).type, generated_on |-> index_to_tuple(items[n]).generated_on]]

\* Lines 207-215 with index.xml as `file`.
RegenInsert(file) ==
    /\ index_xml' = file
    /\ UNCHANGED <<db_file, xml>>
    /\ IF ~file.valid
       THEN Exit("ParseError") /\ UNCHANGED conn
       ELSE IF HasDuplicateIds(file.items)
       THEN Exit("IntegrityError") /\ UNCHANGED conn
       ELSE /\ conn' = insert_entries(file.items)
            /\ pc' = "regenerate_anime"
            /\ UNCHANGED <<args, outcome>>

\* download_cached(list_api, index_path), parse, insert.  The file is used
\* as it is when it exists; otherwise it is opened for writing and then the
\* list is requested, so a failed request leaves an empty file behind.
RegenIndex ==
    /\ pc = "regenerate_index"
    /\ \/ /\ index_xml.exists
          /\ RegenInsert(index_xml)
       \/ /\ ~index_xml.exists
          /\ \E m \in MasterLists : RegenInsert([exists |-> TRUE, valid |-> TRUE, items |-> m])
       \/ /\ ~index_xml.exists
          /\ index_xml' = [exists |-> TRUE, valid |-> FALSE, items |-> <<>>]
          /\ UNCHANGED <<db_file, xml>>
          /\ Exit("IndexDownloadError")
          /\ UNCHANGED conn
    /\ UNCHANGED <<locals, report, modes, history, dedup>>

\* One round of the loop of lines 218-225 for entry_type t.
RegenLocal(t) ==
    /\ pc = "regenerate_" \o t
    /\ IF ~xml[t].exists
       THEN UNCHANGED <<xml, conn>>
       ELSE LET root == remove_duplicates(xml[t].root)
            IN /\ xml' = [xml EXCEPT ![t].root = root]
               /\ conn' = update_entries(conn, [i \in 1..Len(root) |-> entry_to_tuple(root[i])])
    /\ pc' = IF t = "anime" THEN "regenerate_manga" ELSE "regenerate_commit"
    /\ UNCHANGED <<index_xml, db_file, args, outcome, report, modes, locals, history, dedup>>

\* conn.commit() and return to main.
RegenCommit ==
    /\ pc = "regenerate_commit"
    /\ db_file' = commit(db_file, conn)
    /\ last_regen' = [valid |-> TRUE, rows |-> conn]
    /\ pc' = AfterStore(args)
    /\ UNCHANGED <<index_xml, xml, args, conn, outcome, report, modes, locals, dedup>>
    /\ UNCHANGED <<requested, seen_at_start, unseen_at_start, batches, last_commit, interrupted, at_start>>

(* ------------------------------ status --------------------------------- *)

\* Lines 269-272: progress, then seen/total*100 for the log line.
Status ==
    /\ pc = "status"
    /\ report' = progress(conn, args.entry_type)
    /\ modes' = modes \cup {"status"}
    /\ UNCHANGED durable
    /\ IF report'[2] = 0 THEN Exit("ZeroDivisionError") ELSE Exit("ok")
    /\ UNCHANGED <<conn, locals, history, dedup>>


(* -------------------------- download_entries --------------------------- *)

\* The batch loop without `num_entries -= num_batch`.
DecrementNothing(count, batch) == count

\* num_entries -= num_batch
Decrement(count, batch) == count - batch

\* num_batch left as it is.
MinNoClamp(a, b) == a

Min(a, b) == IF a <= b THEN a ELSE b

\* Lines 108-130: the ids to choose from, the count, the local document.
DownloadStart ==
    /\ pc = "download_entries"
    /\ total_id' = SelectTotal(conn, args.entry_type)
    /\ not_seen' = SelectTotal(conn, args.entry_type) \ SelectSeen(conn, args.entry_type)
    /\ num_entries' = IF args.num_entries < 0 THEN Cardinality(not_seen') ELSE args.num_entries
    /\ num_batch' = NumBatch
    /\ local' = IF xml[args.entry_type].exists THEN xml[args.entry_type].root ELSE <<>>
    /\ modes' = modes \cup {"download"}
    /\ seen_at_start' = {i \in DOMAIN db_file.rows : db_file.rows[i].generated_on # None}
    /\ unseen_at_start' = {i \in DOMAIN db_file.rows : TypeMatches(db_file.rows[i].type, args.entry_type) /\ db_file.rows[i].generated_on = None}
    /\ last_commit' = <<db_file, xml>>
    /\ last_regen' = NoRegen
    /\ pc' = "while"
    /\ UNCHANGED <<durable, args, conn, to_download, children, outcome, report, requested, batches, interrupted, at_start, dedup>>

\* Lines 132-139: the loop test, the clamp of num_batch and the choice of
\* to_download.  random.sample takes a set up to Python 3.10 and raises
\* TypeError from 3.11 on.
While ==
    /\ pc = "while"
    /\ UNCHANGED durable
    /\ IF num_entries > 0
       THEN /\ num_batch' = Min(num_batch, num_entries)
            /\ IF Cardinality(not_seen) <= num_batch'
               THEN /\ to_download' = not_seen
                    /\ pc' = "urlopen"
                    /\ UNCHANGED <<args, outcome>>
               ELSE \/ /\ to_download' \in Samples(not_seen, num_batch')
                       /\ pc' = "urlopen"
                       /\ UNCHANGED <<args, outcome>>
                    \/ /\ Exit("TypeError")
                       /\ UNCHANGED to_download
       ELSE Exit("ok") /\ UNCHANGED <<num_batch, to_download>>
    /\ UNCHANGED <<conn, total_id, not_seen, num_entries, local, children, report, modes, history, dedup>>

\* Lines 141-151: the request for to_download and its answer; a request
\* that fails raises out of main.  An answer is only followed while the
\* document it is appended to stays within MaxDocLen.
Urlopen ==
    /\ pc = "urlopen"
    /\ requested' = requested \cup to_download
    /\ UNCHANGED durable
    /\ \/ /\ children' \in Responses(to_download)
          /\ Len(local) + Len(children') <= MaxDocLen
          /\ pc' = "write"
          /\ UNCHANGED <<args, outcome>>
       \/ /\ Exit("TransportError")
          /\ UNCHANGED children
    /\ UNCHANGED <<conn, total_id, not_seen, num_entries, num_batch, local, to_download>>
    /\ UNCHANGED <<report, modes, seen_at_start, unseen_at_start, batches, last_commit, interrupted, last_regen, at_start, dedup>>

\* Lines 152-153: the local document grows by the answer and is written out.
Write ==
    /\ pc = "write"
    /\ local' = Extend(local, children)
    /\ xml' = [xml EXCEPT ![args.entry_type] = [exists |-> TRUE, root |-> local']]
    /\ pc' = "update"
    /\ UNCHANGED <<index_xml, db_file, args, conn, outcome, report, modes, total_id, not_seen, num_entries, num_batch, to_download, children, history, dedup>>

\* Lines 155-167: the rows are updated, the counters move on, the progress
\* line divides by the number of ids of the type, and the batch is committed.
\* When to_download was not sampled it is the set object not_seen itself
\* (line 137), and empties with it.
Update ==
    /\ pc = "update"
    /\ UNCHANGED <<index_xml, xml>>
    /\ conn' = update_entries(conn, [i \in 1..Len(children) |-> entry_to_tuple(children[i])])
    /\ not_seen' = Remaining(not_seen, to_download)
    /\ num_entries' = Decrement(num_entries, num_batch)
    /\ IF Cardinality(total_id) = 0
       THEN /\ db_file' = db_file
            /\ Exit("ZeroDivisionError")
            /\ UNCHANGED <<report, batches, last_commit>>
       ELSE /\ report' = <<Cardinality(total_id) - Cardinality(not_seen'), Cardinality(total_id)>>
            /\ db_file' = BatchCommit(db_file, conn')
            /\ batches' = batches + 1
            /\ last_commit' = <<db_file', xml>>
            /\ pc' = "while"
            /\ UNCHANGED <<args, outcome>>
    /\ to_download' = IF to_download = not_seen THEN Remaining(not_seen, to_download) ELSE to_download
    /\ UNCHANGED <<total_id, num_batch, local, children>>
    /\ UNCHANGED <<modes, requested, seen_at_start, unseen_at_start, interrupted, last_regen, at_start, dedup>>

(* --------------------------- specification ----------------------------- *)

Next ==
    \/ Main
    \/ Return
    \/ Kill
    \/ ProcessEnd
    \/ RegenCreate
    \/ RegenIndex
    \/ \E t \in EntryTypes : RegenLocal(t)
    \/ RegenCommit
    \/ Status
    \/ DownloadStart
    \/ While
    \/ Urlopen
    \/ Write
    \/ Update

Spec == Init /\ [][Next]_vars

\* The process runs one statement after the other: a step of
\* download_entries that is reached is taken, unless the process is killed
\* first.
Fairness ==
    /\ WF_vars(DownloadStart)
    /\ WF_vars(While)
    /\ WF_vars(Urlopen)
    /\ WF_vars(Write)
    /\ WF_vars(Update)

SpecLive == Init /\ [][Next]_vars /\ Fairness

\* remove_duplicates applied to a document file, and again to what it left.
Deduplicate ==
    /\ dd_calls < MaxDedupCalls
    /\ dd_out' = remove_duplicates(IF dd_calls = 0 THEN dd_in ELSE dd_out)
    /\ dd_calls' = dd_calls + 1
    /\ UNCHANGED <<durable, process, locals, history, dd_in>>

NextDedup == Deduplicate

SpecDedup == InitDedup /\ [][NextDedup]_vars


(* ------------------------------- claims -------------------------------- *)

\* The ids with a generated_on in `rows`.
Fetched(rows) == {i \in DOMAIN rows : rows[i].generated_on # None}

\* UnfetchedIds(kind) of the spec, on `rows`.
UnfetchedIds(rows, entry_type) == {i \in DOMAIN rows : TypeMatches(rows[i].type, entry_type) /\ rows[i].generated_on = None}

\* The ids of the nodes of either document file.
DocumentIds == UNION {NodeIds(xml[t].root) : t \in EntryTypes}

\* The durable states the spec speaks of: regeneration has just committed,
\* or a batch of a download has.
AfterRegeneration == "regenerate" \in modes /\ pc \in {"status", "download_entries", "return"}
AfterBatchCommit == pc = "while" /\ batches > 0

\* The first node of each id, in document order.
RECURSIVE FirstOccurrences(_)
FirstOccurrences(root) ==
    IF root = <<>> THEN <<>>
    ELSE LET init == FirstOccurrences(SubSeq(root, 1, Len(root) - 1))
             last == root[Len(root)]
         IN IF last.id \in NodeIds(init) THEN init ELSE Append(init, last)

\* C1 (resumability): a run of download_entries, and so a re-run after a
\* run that was killed after committing a batch, never requests an id whose
\* committed generated_on was set when the run began; every id it requests,
\* and every id it still holds as not seen, is a row that was unfetched then.
C1_Resumability ==
    pc \in DownloadPcs =>
        /\ (requested \cup to_download \cup not_seen) \cap seen_at_start = {}
        /\ (requested \cup to_download \cup not_seen) \subseteq DOMAIN db_file.rows

\* A re-run after an interrupted run has fetched rows before it and has
\* requested a batch of its own.
C1_Witness ==
    /\ interrupted
    /\ pc = "write"
    /\ requested # {}
    /\ seen_at_start # {}

\* C2 (deduplication correctness): remove_duplicates leaves exactly the
\* first node of each id, in the original order.
C2_DeduplicateFirstOccurrences == dd_calls = 1 => dd_out = FirstOccurrences(dd_in)

\* C3 (idempotent regeneration): a regeneration that follows a regeneration,
\* with nothing downloaded in between, is about to commit the rows the
\* first one committed.
C3_IdempotentRegeneration == (pc = "regenerate_commit" /\ last_regen.valid) => conn = last_regen.rows

\* C4 (monotonic fetch status): no step of a download takes a committed
\* generated_on from set to null, drops its row, or puts its id back among
\* the unfetched ids of a type or the not_seen of the run.
StaysFetched ==
    pc \in DownloadPcs =>
        \A i \in Fetched(db_file.rows) :
            /\ i \in Fetched(db_file'.rows)
            /\ \A t \in EntryTypes : i \notin UnfetchedIds(db_file'.rows, t)
            /\ (pc' \in DownloadPcs => i \notin not_seen')

C7_FatalBatchFailure ==
    (pc = "exit" /\ outcome = "TransportError") =>
        /\ <<db_file, xml>> = last_commit
        /\ conn = db_file.rows
        /\ local = xml[args.entry_type].root
        /\ to_download \cap Fetched(db_file.rows) = {}

\* The request of a later batch than the first has failed.
C7_Witness ==
    /\ pc = "exit"
    /\ outcome = "TransportError"
    /\ batches >= 1
    /\ Fetched(db_file.rows) \cap requested # {}
    /\ to_download # {}

\* C8 (sampling bounds): each request carries a subset of not_seen of size
\* min(|not_seen|, min(batch size, remaining count)), so at most the batch
\* size.
C8_SamplingBounds ==
    pc = "urlopen" =>
        LET effective == IF NumBatch <= num_entries THEN NumBatch ELSE num_entries
            size == IF Cardinality(not_seen) <= effective THEN Cardinality(not_seen) ELSE effective
        IN /\ num_batch = effective
           /\ to_download \subseteq not_seen
           /\ Cardinality(to_download) = size
           /\ Cardinality(to_download) <= NumBatch

\* A sample is drawn with the batch clamped below the batch size.
C8_Witness ==
    /\ pc = "urlopen"
    /\ num_entries < NumBatch
    /\ to_download # not_seen
    /\ to_download # {}

\* C9 (progress arithmetic): what progress returns to main are the counts
\* of the type's rows, and it returns nothing when the total is 0.
C9_ProgressGuardsEmptyStore ==
    (pc = "exit" /\ "status" \in modes) =>
        /\ report = <<Cardinality(Fetched(conn) \cap SelectTotal(conn, args.entry_type)), Cardinality(SelectTotal(conn, args.entry_type))>>
        /\ report[2] # 0

\* The bucket of a raw type string.
Bucket(type) == IF type \in {"manga", "anthology"} THEN "manga" ELSE "anime"

\* C10 (kind bucketing): a row with a type string is among the ids of a
\* download exactly when its bucket is the requested type, the ids not seen
\* and the ids requested are among those, and progress counts those.
C10_KindBucketing ==
    LET bucket == {i \in DOMAIN conn : conn[i].type # "NULL" /\ Bucket(conn[i].type) = args.entry_type}
    IN /\ pc \in DownloadPcs => (total_id = bucket /\ not_seen \subseteq bucket /\ requested \subseteq bucket)
       /\ (pc = "exit" /\ "status" \in modes) => (report[2] = Cardinality(bucket) /\ report[1] = Cardinality(bucket \cap Fetched(conn)))

\* An anthology is requested by a download of manga.
C10_Witness ==
    /\ pc = "write"
    /\ args.entry_type = "manga"
    /\ \E i \in to_download : conn[i].type = "anthology"

\* The mode the flags call for: regeneration with --regenerate-db, else the
\* status report with --status, else the download.
ModeOf(a) == IF a.regenerate_db THEN "regenerate" ELSE IF a.status THEN "status" ELSE "download"

\* The modes this invocation has run at the request of its flags; the
\* regeneration main does because ann.db is missing is not counted.
ModesRun == IF args.regenerate_db THEN modes ELSE modes \ {"regenerate"}

\* C11 (mode exclusivity): an invocation of main runs no mode but the one
\* its flags call for (regeneration before status before download), and has
\* run exactly that one when it returns.
C11_ModeExclusivity ==
    pc # "idle" =>
        /\ ModesRun \subseteq {ModeOf(args)}
        /\ (pc = "exit" /\ outcome = "ok") => ModesRun = {ModeOf(args)}

\* An invocation with --status and without --regenerate-db.
StatusInvocation == pc # "idle" /\ args.status /\ ~args.regenerate_db

\* C12 as stated (status mutates nothing): throughout an invocation with
\* --status and without --regenerate-db, ann.db and the documents are as
\* the invocation found them, also when it found no ann.db.
C12_StatusMutatesNothing == StatusInvocation => <<db_file, xml>> = at_start

\* C12 as amended: the same for an invocation that found ann.db in place.
C12_StatusKeepsExistingStore == (StatusInvocation /\ at_start[1].exists) => <<db_file, xml>> = at_start

\* A status report has been made from an ann.db with fetched rows.
C12_Witness ==
    /\ StatusInvocation
    /\ pc = "exit"
    /\ "status" \in modes
    /\ at_start[1].exists
    /\ Fetched(at_start[1].rows) # {}

\* C13 (stop on exhaustion): no request is made once not_seen is empty, so
\* no request carries an empty set of ids.
C13_StopOnExhaustion == pc = "urlopen" => (not_seen # {} /\ to_download # {})

\* The generated-on of the first node of id i in a document.
RecordedDate(root, i) ==
    LET k == CHOOSE k \in 1..Len(root) : root[k].id = i /\ \A j \in 1..(k - 1) : root[j].id # i
    IN root[k].generated_on

\* C14 (regeneration postcondition): when regenerate_database has committed,
\* the rows are those of the ids of the master list, and the generated_on of
\* a row is the generated-on recorded for its id in the document that was
\* there (that of the node deduplication is to keep, the first), and null
\* for an id in no document.
C14_RegenerationPostcondition ==
    AfterRegeneration =>
        /\ DOMAIN db_file.rows = NodeIds(index_xml.items)
        /\ \A i \in DOMAIN db_file.rows :
            db_file.rows[i].generated_on =
                IF \E t \in EntryTypes : i \in NodeIds(at_start[2][t].root)
                THEN RecordedDate(at_start[2][CHOOSE t \in EntryTypes : i \in NodeIds(at_start[2][t].root)].root, i)
                ELSE None

\* A batch: the step from the update back to the loop test.
CountDecreases == (pc = "update" /\ pc' = "while") => (num_entries' < num_entries /\ num_entries' >= 0)

\* C15 (termination): every batch leaves the remaining count smaller (and
\* not below zero), and a download that has begun comes to its end: main
\* returns or raises, or the process is killed.
C15_Termination ==
    /\ [][CountDecreases]_vars
    /\ (pc = "download_entries") ~> (pc \in {"exit", "idle"})

\* A download of more entries than there are unseen ones, begun with
\* nothing unseen, has run two batches and returned.
C15_Witness ==
    /\ pc = "exit"
    /\ outcome = "ok"
    /\ batches >= 2
    /\ unseen_at_start = {}
    /\ args.num_entries > NumBatch

\* C16 (target count): no request carries an id this run has requested
\* before, and a download that returns has requested min(N, unseen at its
\* start) ids for a target N >= 0 and every id unseen at its start for a
\* negative target.
C16_TargetCount ==
    /\ pc = "urlopen" => to_download \cap requested = {}
    /\ (pc = "exit" /\ outcome = "ok" /\ "download" \in modes) =>
        /\ requested \subseteq unseen_at_start
        /\ IF args.num_entries < 0
           THEN requested = unseen_at_start
           ELSE Cardinality(requested) = Min(args.num_entries, Cardinality(unseen_at_start))

\* A download of fewer entries than are unseen, but more than a batch
\* takes, has returned.
C16_Witness ==
    /\ pc = "exit"
    /\ outcome = "ok"
    /\ "download" \in modes
    /\ args.num_entries > NumBatch
    /\ args.num_entries < Cardinality(unseen_at_start) + 1
    /\ Cardinality(requested) = args.num_entries

\* A second remove_duplicates leaves what the first one left.
SecondPassChangesNothing == (dd_calls = 1 /\ dd_calls' = 2) => dd_out' = dd_out

\* C17 (deduplication idempotence): remove_duplicates applied to a document
\* that remove_duplicates has been applied to changes nothing.
C17_DeduplicateIdempotent == [][SecondPassChangesNothing]_vars

\* C18 (reported progress matches the store): after every committed batch,
\* the counts of the batch's progress line (num_seen, num_total) are the
\* counts progress computes from the committed rows.
C18_ReportedProgressMatchesStore == AfterBatchCommit => report = progress(db_file.rows, args.entry_type)

\* C19 (buckets partition the index): every committed row, one with a null
\* type included, is among the ids of exactly one of the two entry types,
\* and the totals progress gives for the two types add up to the number of
\* rows.
C19_BucketsPartition ==
    /\ \A i \in DOMAIN db_file.rows : Cardinality({t \in EntryTypes : i \in SelectTotal(db_file.rows, t)}) = 1
    /\ progress(db_file.rows, "anime")[2] + progress(db_file.rows, "manga")[2] = Cardinality(DOMAIN db_file.rows)

\* regenerate_database has raised before its commit.
RegenerationAborted == pc = "exit" /\ modes = {"regenerate"} /\ outcome \in {"IndexDownloadError", "ParseError", "IntegrityError"}

\* C20 (failed regeneration is recoverable): when regenerate_database has
\* raised before its commit, either there is no ann.db or ann.db is as the
\* invocation found it; and a download never starts on a table with no row.
C20_FailedRegenerationRecoverable ==
    /\ RegenerationAborted => (~db_file.exists \/ db_file = at_start[1])
    /\ pc = "download_entries" => DOMAIN conn # {}

====
